---- MODULE Spec2Model ----
(***************************************************************************)
(* A model of winrt-toast-reborn: the ToastManager (src/src/manager.rs),   *)
(* its event translation functions and the platform objects it drives     *)
(* (notifier, notification history, event sources).                        *)
(*                                                                         *)
(* Encoding of Rust values:                                                *)
(*   Option<T>            None == <<>>, Some(x) == <<x>>                    *)
(*   a WinRT getter       <<v>> when the call returns Ok(v), <<>> when it   *)
(*                        returns an error (every use in the source drops   *)
(*                        the error with .ok())                             *)
(*   HSTRING / String     a TLA+ string; payload strings stem from the      *)
(*                        toast document and are well-formed UTF-16, on     *)
(*                        which to_string is exact                          *)
(*   HashMap<K, V>        a set of <<key, value>> pairs with unique keys    *)
(***************************************************************************)
EXTENDS Integers, Sequences, FiniteSets, TLC

VARIABLES
    mgrs,       \* the ToastManager values of the program (a sequence)
    closures,   \* the closures given to on_activated / on_dismissed / on_failed,
                \* in the order of the calls; a closure's identity is its index
    notifs,     \* the ToastNotification objects the platform holds
    last,       \* the last step: a ToastManager call and what it returned,
                \* or an event callback and what the closures were handed
    tr,         \* the last call of a translation function: inputs and output
    inflight,   \* the handler invocations the platform has begun and not
                \* finished, one per platform thread
    draft       \* the Toast value the caller is building

vars == <<mgrs, closures, notifs, last, tr, inflight, draft>>
mainVars == <<mgrs, closures, notifs, last, inflight, draft>>

None == <<>>
Some(x) == <<x>>

\* ----------------------------------------------------------------------
\* Platform values
\* ----------------------------------------------------------------------

\* ToastDismissalReason is an i32 newtype; the three named values.
UserCanceled == 0
ApplicationHidden == 1
TimedOut == 2

\* HRESULT values the platform can report: E_FAIL, S_OK, S_FALSE.
E_FAIL == -2147467259
S_OK == 0
S_FALSE == 1
HResults == {E_FAIL, S_OK, S_FALSE}

\* HRESULT::is_err, the filter of get_failed_error.
is_err_neq0(hr) == hr /= 0
is_err(hr) == hr < 0

\* ----------------------------------------------------------------------
\* Event translation (pure functions)
\* ----------------------------------------------------------------------

\* toast.as_ref().and_then(|t| t.Tag().ok()).map(|s| s.to_string())
\* toast: None, or Some of a notification whose Tag getter is <<s>> or <<>>.
sender_tag(toast) ==
    IF toast = None THEN None
    ELSE IF toast[1].Tag = <<>> THEN None
    ELSE Some(toast[1].Tag[1])

\* inspect.as_ref().and_then(|arg| arg.cast::<ToastActivatedEventArgs>().ok())
cast_args(inspect) ==
    IF inspect = None THEN None
    ELSE IF inspect[1].class /= "ToastActivatedEventArgs" THEN None
    ELSE Some(inspect[1])

\* args.and_then(|args| args.Arguments().ok()).map(to_string).filter(!is_empty)
button_arg_keep_empty(args) ==
    IF args = None THEN None
    ELSE IF args[1].Arguments = <<>> THEN None
    ELSE Some(args[1].Arguments[1])
button_arg(args) ==
    IF args = None THEN None
    ELSE IF args[1].Arguments = <<>> THEN None
    ELSE IF args[1].Arguments[1] = "" THEN None
    ELSE Some(args[1].Arguments[1])

\* The filter_map closure over one pair of the ValueSet: Some((key, value))
\* when the value casts to IReference<HSTRING>, can be read and is not
\* empty. The key is not examined.
keep_pair_any_string(pair) ==
    pair.value.type = "String"
keep_pair(pair) ==
    /\ pair.value.type = "String"
    /\ pair.value.str /= ""

\* args.and_then(|args| args.UserInput().ok()).map(...collect()).unwrap_or_default()
user_input(args) ==
    IF args = None THEN {}
    ELSE IF args[1].UserInput = <<>> THEN {}
    ELSE { <<p.key, p.value.str>> : p \in { q \in args[1].UserInput[1] : keep_pair(q) } }

\* ToastManager::get_activated_action
get_activated_action(toast, inspect, input_id) ==
    LET tag == sender_tag(toast)
        args == cast_args(inspect)
        arg == button_arg(args)
        values == user_input(args)
    IN  IF arg = None THEN None
        ELSE Some([tag |-> tag, arg |-> arg[1], values |-> values,
                   input_id |-> input_id])

\* DismissalReason::from_winrt: Ok(reason) or Err(InvalidDismissalReason)
from_winrt_default(reason) ==
    CASE reason = UserCanceled -> [ok |-> TRUE, v |-> "UserCanceled"]
      [] reason = ApplicationHidden -> [ok |-> TRUE, v |-> "ApplicationHidden"]
      [] OTHER -> [ok |-> TRUE, v |-> "TimedOut"]
from_winrt(reason) ==
    CASE reason = UserCanceled -> [ok |-> TRUE, v |-> "UserCanceled"]
      [] reason = ApplicationHidden -> [ok |-> TRUE, v |-> "ApplicationHidden"]
      [] reason = TimedOut -> [ok |-> TRUE, v |-> "TimedOut"]
      [] OTHER -> [ok |-> FALSE, v |-> "InvalidDismissalReason"]

\* Result<ToastDismissed>
OkDismissed(tag, reason) ==
    [ok |-> TRUE, tag |-> tag, reason |-> reason, err |-> "none"]
ErrDismissed(e) ==
    [ok |-> FALSE, tag |-> None, reason |-> "none", err |-> e]

\* ToastManager::get_dismissal_reason
get_dismissal_reason(toast, args) ==
    LET tag == sender_tag(toast)
    IN  IF args = None \/ args[1].Reason = <<>>
        THEN ErrDismissed("InvalidDismissalReason")
        ELSE LET r == from_winrt(args[1].Reason[1])
             IN  IF r.ok THEN OkDismissed(tag, r.v) ELSE ErrDismissed(r.v)

\* WinToastError::Os(e.into()) and WinToastError::Unknown
OsError(hr) == [kind |-> "Os", code |-> hr]
UnknownError == [kind |-> "Unknown", code |-> 0]

\* ToastManager::get_failed_error
get_failed_error(toast, args) ==
    LET tag == sender_tag(toast)
        error == IF args = None \/ args[1].ErrorCode = <<>> THEN UnknownError
                 ELSE IF is_err(args[1].ErrorCode[1])
                      THEN OsError(args[1].ErrorCode[1])
                      ELSE UnknownError
    IN  [tag |-> tag, error |-> error]

\* ----------------------------------------------------------------------
\* Event payloads the platform can hand to a handler
\* ----------------------------------------------------------------------

Keys == {"", "k"}
\* A value of the ValueSet: a string, a non-string property value (the cast
\* to IReference<HSTRING> fails) or one whose Value() call fails.
ValueObjects ==
    { [type |-> "String", str |-> s] : s \in {"", "v"} }
    \cup { [type |-> "Int32", str |-> ""], [type |-> "Unreadable", str |-> ""] }
\* ValueSets: at most one pair per key.
ValueSets ==
    { vs \in SUBSET { [key |-> k, value |-> v] : k \in Keys, v \in ValueObjects } :
        \A p, q \in vs : p.key = q.key => p = q }

ArgStrings == {"", "yes"}
ActivationArgs ==
    { [class |-> "ToastActivatedEventArgs", Arguments |-> a, UserInput |-> u] :
        a \in {<<>>} \cup { <<s>> : s \in ArgStrings },
        u \in {<<>>} \cup { <<vs>> : vs \in ValueSets } }
OtherObject ==
    [class |-> "Other", Arguments |-> <<>>, UserInput |-> <<>>]
ActivationPayloads ==
    {None} \cup { Some(o) : o \in ActivationArgs \cup {OtherObject} }

ReasonCodes == {UserCanceled, ApplicationHidden, TimedOut, 3, -1}
DismissalPayloads ==
    {None, Some([Reason |-> <<>>])} \cup { Some([Reason |-> <<r>>]) : r \in ReasonCodes }

FailurePayloads ==
    {None, Some([ErrorCode |-> <<>>])} \cup { Some([ErrorCode |-> <<hr>>]) : hr \in HResults }

TagStrings == {"", "t"}
Senders ==
    {None, Some([Tag |-> <<>>])} \cup { Some([Tag |-> <<s>>]) : s \in TagStrings }
InputIds == {None, Some("k")}

\* ----------------------------------------------------------------------
\* SpecTranslate: the translation functions applied to every payload
\* ----------------------------------------------------------------------

NoCall == [fn |-> "none"]

NoStep == [op |-> "none"]
AppIds == {"A", "B"}

\* ToastManager::new
new(aum_id) ==
    [app_id |-> aum_id, on_activated |-> None, on_dismissed |-> None,
     on_failed |-> None]

TranslateActivated ==
    \E toast \in Senders, inspect \in ActivationPayloads, id \in InputIds :
        /\ tr' = [fn |-> "get_activated_action", toast |-> toast,
                  payload |-> inspect,
                  input_id |-> id, out |-> get_activated_action(toast, inspect, id)]
        /\ UNCHANGED mainVars

TranslateDismissed ==
    \E toast \in Senders, args \in DismissalPayloads :
        /\ tr' = [fn |-> "get_dismissal_reason", toast |-> toast, payload |-> args,
                  out |-> get_dismissal_reason(toast, args)]
        /\ UNCHANGED mainVars

TranslateFailed ==
    \E toast \in Senders, args \in FailurePayloads :
        /\ tr' = [fn |-> "get_failed_error", toast |-> toast, payload |-> args,
                  out |-> get_failed_error(toast, args)]
        /\ UNCHANGED mainVars

NextTranslate == TranslateActivated \/ TranslateDismissed \/ TranslateFailed


\* ----------------------------------------------------------------------
\* Bounds
\* ----------------------------------------------------------------------

MaxClosures == 2
MaxShown == 1

\* ----------------------------------------------------------------------
\* ToastManager: handler registration
\* ----------------------------------------------------------------------

Kinds == {"activated", "dismissed", "failed"}

\* The handler slot of a manager value for a kind of event.
Slot(m, kind) ==
    CASE kind = "activated" -> m.on_activated
      [] kind = "dismissed" -> m.on_dismissed
      [] kind = "failed" -> m.on_failed

\* A TypedEventHandler: the caller's closure f and the input id it captured.
Handler(f, id) == [f |-> f, id |-> id]

\* self.on_<kind> = Some(handler): the slot is overwritten.
set_slot_append(slot, h) == Append(slot, h)
set_slot(slot, h) == Some(h)

NoHandlers == [k \in Kinds |-> <<>>]

\* ToastManager::on_activated(self, input_id, f) -> Self
OnActivated ==
    \E m \in 1..Len(mgrs), id \in InputIds :
        /\ Len(closures) < MaxClosures
        /\ mgrs' = [mgrs EXCEPT ![m].on_activated =
                        set_slot(@, Handler(Len(closures) + 1, id))]
        /\ closures' = Append(closures, [m |-> m, kind |-> "activated"])
        /\ last' = [op |-> "on_activated", m |-> m, kind |-> "activated",
                    f |-> Len(closures) + 1, id |-> id]
        /\ UNCHANGED <<notifs, tr, inflight, draft>>

\* ToastManager::on_dismissed(self, f) -> Self
OnDismissed ==
    \E m \in 1..Len(mgrs) :
        /\ Len(closures) < MaxClosures
        /\ mgrs' = [mgrs EXCEPT ![m].on_dismissed =
                        set_slot(@, Handler(Len(closures) + 1, None))]
        /\ closures' = Append(closures, [m |-> m, kind |-> "dismissed"])
        /\ last' = [op |-> "on_dismissed", m |-> m, kind |-> "dismissed",
                    f |-> Len(closures) + 1, id |-> None]
        /\ UNCHANGED <<notifs, tr, inflight, draft>>

\* ToastManager::on_failed(self, f) -> Self
OnFailed ==
    \E m \in 1..Len(mgrs) :
        /\ Len(closures) < MaxClosures
        /\ mgrs' = [mgrs EXCEPT ![m].on_failed =
                        set_slot(@, Handler(Len(closures) + 1, None))]
        /\ closures' = Append(closures, [m |-> m, kind |-> "failed"])
        /\ last' = [op |-> "on_failed", m |-> m, kind |-> "failed",
                    f |-> Len(closures) + 1, id |-> None]
        /\ UNCHANGED <<notifs, tr, inflight, draft>>

MaxManagers == 2

\* let copy = manager.clone(): #[derive(Clone)] copies the identity string
\* and the three handler slots into a new manager value.
CloneManager ==
    \E m \in 1..Len(mgrs) :
        /\ Len(mgrs) < MaxManagers
        /\ mgrs' = Append(mgrs, mgrs[m])
        /\ last' = [op |-> "clone", m |-> m]
        /\ UNCHANGED <<closures, notifs, tr, inflight, draft>>

\* ----------------------------------------------------------------------
\* ToastManager::show
\* ----------------------------------------------------------------------

\* A u64 number of seconds, written hi * 2^31 + lo with lo in 0..2^31-1.
Secs(hi, lo) == [hi |-> hi, lo |-> lo]

\* A Duration: whole seconds and the nanoseconds of the sub-second part.
Duration(hi, lo, nanos) == [hi |-> hi, lo |-> lo, nanos |-> nanos]

\* Duration::as_secs: the whole seconds; the sub-second part is dropped.
as_secs(d) == Secs(d.hi, d.lo)

\* The fields of a Toast that show gives to the notification object.
Toast(tag, group, remote_id, expires_in) ==
    [tag |-> tag, group |-> group, remote_id |-> remote_id,
     expires_in |-> expires_in]
Toasts ==
    { Toast(None, None, None, None),
      Toast(Some("t"), Some("g"), None, None),
      Toast(Some("t"), None, Some("r"), Some(Duration(0, 60, 0))) }

\* Toasts over the expiration offsets a Duration can hold: none, a minute,
\* 2^31 - 1 seconds, 2^31 seconds, 2^32 + 5 seconds, one and a half seconds.
ExpiringToasts ==
    { Toast(Some("t"), None, None, exp) :
        exp \in { None, Some(Duration(0, 60, 0)),
                  Some(Duration(0, 2147483647, 0)), Some(Duration(1, 0, 0)),
                  Some(Duration(2, 5, 0)), Some(Duration(0, 1, 500000000)) } }

\* exp.as_secs() as i32: the low 32 bits, read as a signed number.
as_i32(secs) ==
    IF secs.hi % 2 = 1 THEN (secs.lo - 2147483647) - 1 ELSE secs.lo

\* ToastNotification::CreateToastNotification: no tag, group or remote id
\* (their getters return the empty string), no expiration, no event handler.
\* `expiration` is the number of seconds show adds to the calendar's current
\* time (Calendar::AddSeconds) to get the expiration time.
\* Beside the object's properties: `toast`, the Toast it was built from,
\* `listed`, whether the notification history holds it, and `first`, the
\* kind of the first event handed to a closure for it.
CreateToastNotification(app, toast) ==
    [app |-> app, tag |-> "", group |-> "", remote_id |-> "",
     expiration |-> None, subs |-> NoHandlers, toast |-> toast,
     listed |-> FALSE, first |-> "none"]

\* ToastNotifier::Show: the platform takes the notification and lists it
\* in the history of its application. `by` and `registered` record the
\* manager that showed it and how many closures had been registered then.
Accept(n, m) ==
    [app |-> n.app, tag |-> n.tag, group |-> n.group, remote_id |-> n.remote_id,
     expiration |-> n.expiration, subs |-> n.subs, toast |-> n.toast,
     listed |-> TRUE, first |-> n.first, by |-> m, registered |-> Len(closures)]

\* The platform calls of show, in the order of the source; the optional
\* ones are made only when their `if let Some(..)` matches.
ShowSteps(m, toast) ==
    <<"CreateToastNotifierWithId", "BuildDocument", "CreateToastNotification">>
    \o (IF toast.group /= None THEN <<"SetGroup">> ELSE <<>>)
    \o (IF toast.tag /= None THEN <<"SetTag">> ELSE <<>>)
    \o (IF toast.remote_id /= None THEN <<"SetRemoteId">> ELSE <<>>)
    \o (IF toast.expires_in /= None THEN <<"SetExpirationTime">> ELSE <<>>)
    \o (IF m.on_activated /= None THEN <<"Activated">> ELSE <<>>)
    \o (IF m.on_dismissed /= None THEN <<"Dismissed">> ELSE <<>>)
    \o (IF m.on_failed /= None THEN <<"Failed">> ELSE <<>>)
    \o <<"Show">>

\* toast_notifier.Activated(handler) / Dismissed(handler) / Failed(handler):
\* the handler is added to the event of that kind.
attach_every_kind(n, kind, slot) ==
    [n EXCEPT !.subs = [k \in Kinds |-> n.subs[k] \o slot]]
attach_none(n, kind, slot) == n
attach(n, kind, slot) ==
    [n EXCEPT !.subs[kind] = @ \o slot]

\* The effect of one successful platform call on the notification being built.
ApplyStep(step, m, toast, n) ==
    CASE step = "SetGroup" -> [n EXCEPT !.group = toast.group[1]]
      [] step = "SetTag" -> [n EXCEPT !.tag = toast.tag[1]]
      [] step = "SetRemoteId" -> [n EXCEPT !.remote_id = toast.remote_id[1]]
      [] step = "SetExpirationTime" ->
            [n EXCEPT !.expiration = Some(as_i32(as_secs(toast.expires_in[1])))]
      [] step = "Activated" -> attach(n, "activated", m.on_activated)
      [] step = "Dismissed" -> attach(n, "dismissed", m.on_dismissed)
      [] step = "Failed" -> attach(n, "failed", m.on_failed)
      [] OTHER -> n

\* The `?` after a platform call: show returns early when the call failed.
Propagates_not_handlers(step, failed) ==
    failed /\ step \notin {"Activated", "Dismissed", "Failed"}
Propagates(step, failed) == failed

\* The body of show from its i-th platform call on; failAt is the call the
\* platform fails (0: none). st.n is the notification built so far,
\* st.calls the calls made, st.submitted the notifications handed to
\* notifier.Show, st.err the error returned.
RECURSIVE ShowFrom(_, _, _, _, _, _)
ShowFrom(i, steps, m, toast, failAt, st) ==
    IF i > Len(steps) THEN st
    ELSE LET step == steps[i]
             made == [st EXCEPT !.calls = Append(@, step),
                                !.submitted = IF step = "Show"
                                              THEN Append(@, st.n) ELSE @]
         IN  IF Propagates(step, i = failAt)
             THEN [made EXCEPT !.err = Some(step)]
             ELSE IF i = failAt     \* a failed call changes nothing
             THEN ShowFrom(i + 1, steps, m, toast, failAt, made)
             ELSE ShowFrom(i + 1, steps, m, toast, failAt,
                           [made EXCEPT !.n = ApplyStep(step, m, toast, st.n)])

\* ToastManager::show(&self, toast) -> Result<()>
show(m, toast, failAt) ==
    ShowFrom(1, ShowSteps(m, toast), m, toast, failAt,
             [n |-> CreateToastNotification(m.app_id, toast), calls |-> <<>>,
              submitted |-> <<>>, err |-> None])

\* A call of show during which the platform fails the failAt-th call that
\* show makes (0: every call succeeds).
ShowCall(i, toast, failAt) ==
    /\ failAt = 0 => Len(notifs) < MaxShown
    /\ \E r \in {show(mgrs[i], toast, failAt)} :
        \* the notifier takes what it is handed unless its Show call fails
        LET accepted == IF failAt > 0 /\ failAt <= Len(r.calls)
                           /\ r.calls[failAt] = "Show"
                        THEN <<>> ELSE r.submitted
        IN  /\ Len(notifs) + Len(accepted) <= MaxShown
            /\ notifs' = notifs \o [j \in 1..Len(accepted) |-> Accept(accepted[j], i)]
            /\ last' = [op |-> "show", m |-> i, toast |-> toast,
                        failAt |-> failAt, calls |-> r.calls,
                        submitted |-> r.submitted, taken |-> Len(accepted),
                        err |-> r.err]
    /\ UNCHANGED <<mgrs, closures, tr, inflight, draft>>

\* show while any platform call may fail
Show ==
    \E i \in 1..Len(mgrs), toast \in Toasts :
        \E failAt \in 0..Len(ShowSteps(mgrs[i], toast)) :
            ShowCall(i, toast, failAt)

\* show while every platform call succeeds
ShowOk ==
    \E i \in 1..Len(mgrs), toast \in Toasts : ShowCall(i, toast, 0)

\* show of a toast with any expiration offset, every platform call succeeding
ShowExpiring ==
    \E i \in 1..Len(mgrs), toast \in ExpiringToasts : ShowCall(i, toast, 0)

\* ----------------------------------------------------------------------
\* Events: the platform invokes the handlers attached to a notification
\* ----------------------------------------------------------------------

\* Payloads delivered in the manager specifications (SpecTranslate covers
\* all of ActivationPayloads, DismissalPayloads and FailurePayloads).
SomeValueSet ==
    { [key |-> "k", value |-> [type |-> "String", str |-> "v"]] }
DeliveredActivation ==
    { None,
      Some([class |-> "ToastActivatedEventArgs", Arguments |-> <<"yes">>,
            UserInput |-> <<SomeValueSet>>]) }
DeliveredDismissal ==
    { None, Some([Reason |-> <<TimedOut>>]), Some([Reason |-> <<3>>]) }
DeliveredFailure ==
    { None, Some([ErrorCode |-> <<E_FAIL>>]) }

\* The sender the platform passes to a handler: the notification itself.
Sender(n) == Some([Tag |-> <<n.tag>>])

\* The TypedEventHandler closure of on_activated:
\*   f(Self::get_activated_action(tn, args, id.clone())); Ok(())
activated_callback(h, tn, args) ==
    [f |-> h.f, got |-> get_activated_action(tn, args, h.id), status |-> "Ok"]
\* of on_dismissed: f(Self::get_dismissal_reason(tn, args)); Ok(())
dismissed_callback_raise(h, tn, args) ==
    [f |-> h.f, got |-> get_dismissal_reason(tn, args),
     status |-> IF get_dismissal_reason(tn, args).ok THEN "Ok" ELSE "Err"]
dismissed_callback(h, tn, args) ==
    [f |-> h.f, got |-> get_dismissal_reason(tn, args), status |-> "Ok"]
\* of on_failed: f(Self::get_failed_error(tn, args)); Ok(())
failed_callback(h, tn, args) ==
    [f |-> h.f, got |-> get_failed_error(tn, args), status |-> "Ok"]

\* The handlers the platform invokes for an event of a notification: those
\* added to the notification's event by show.
event_handlers_of_manager(n, kind) == Slot(mgrs[notifs[n].by], kind)
event_handlers(n, kind) == notifs[n].subs[kind]

\* The notification remembers the kind of the first event handed to a closure.
Delivered(n, kind) ==
    [notifs EXCEPT ![n].first = IF @ = "none" THEN kind ELSE @]

RaiseActivated ==
    \E n \in 1..Len(notifs), args \in DeliveredActivation :
        /\ event_handlers(n, "activated") /= <<>>
        /\ last' = [op |-> "callback", kind |-> "activated", n |-> n,
                    args |-> args,
                    invoked |-> [j \in 1..Len(event_handlers(n, "activated")) |->
                        activated_callback(event_handlers(n, "activated")[j],
                                           Sender(notifs[n]), args)]]
        /\ notifs' = Delivered(n, "activated")
        /\ UNCHANGED <<mgrs, closures, tr, inflight, draft>>

RaiseDismissed ==
    \E n \in 1..Len(notifs), args \in DeliveredDismissal :
        /\ event_handlers(n, "dismissed") /= <<>>
        /\ last' = [op |-> "callback", kind |-> "dismissed", n |-> n,
                    args |-> args,
                    invoked |-> [j \in 1..Len(event_handlers(n, "dismissed")) |->
                        dismissed_callback(event_handlers(n, "dismissed")[j],
                                           Sender(notifs[n]), args)]]
        /\ notifs' = Delivered(n, "dismissed")
        /\ UNCHANGED <<mgrs, closures, tr, inflight, draft>>

RaiseFailed ==
    \E n \in 1..Len(notifs), args \in DeliveredFailure :
        /\ event_handlers(n, "failed") /= <<>>
        /\ last' = [op |-> "callback", kind |-> "failed", n |-> n,
                    args |-> args,
                    invoked |-> [j \in 1..Len(event_handlers(n, "failed")) |->
                        failed_callback(event_handlers(n, "failed")[j],
                                        Sender(notifs[n]), args)]]
        /\ notifs' = Delivered(n, "failed")
        /\ UNCHANGED <<mgrs, closures, tr, inflight, draft>>

\* The payload the platform hands over with an event of a kind.
ConcurrentPayloads(kind) ==
    CASE kind = "activated" ->
            { Some([class |-> "ToastActivatedEventArgs", Arguments |-> <<"yes">>,
                    UserInput |-> <<SomeValueSet>>]) }
      [] kind = "dismissed" -> { Some([Reason |-> <<TimedOut>>]) }
      [] kind = "failed" -> { Some([ErrorCode |-> <<E_FAIL>>]) }

\* The platform raises an event of any kind for a notification.
RaiseEvent ==
    \E n \in 1..Len(notifs), kind \in Kinds :
        \E args \in ConcurrentPayloads(kind) :
            /\ event_handlers(n, kind) /= <<>>
            /\ last' = [op |-> "callback", kind |-> kind, n |-> n, args |-> args,
                        invoked |-> [j \in 1..Len(event_handlers(n, kind)) |->
                            CASE kind = "activated" ->
                                    activated_callback(event_handlers(n, kind)[j],
                                                       Sender(notifs[n]), args)
                              [] kind = "dismissed" ->
                                    dismissed_callback(event_handlers(n, kind)[j],
                                                       Sender(notifs[n]), args)
                              [] kind = "failed" ->
                                    failed_callback(event_handlers(n, kind)[j],
                                                    Sender(notifs[n]), args)]]
            /\ UNCHANGED <<mgrs, closures, notifs, tr, inflight, draft>>

\* show of a toast without tag, group, remote id and expiration, every
\* platform call succeeding
ShowPlain ==
    \E i \in 1..Len(mgrs) : ShowCall(i, Toast(None, None, None, None), 0)

\* ----------------------------------------------------------------------
\* Events delivered concurrently: the platform raises the events of several
\* notifications from its own threads, so the handler invocations overlap
\* ----------------------------------------------------------------------

MaxInflight == 2

\* The platform begins to invoke the handler of a kind attached to a
\* notification: the closure's parameters tn and args and its captured id.
BeginEvent ==
    \E n \in 1..Len(notifs), kind \in Kinds :
        \E args \in ConcurrentPayloads(kind) :
            /\ Len(inflight) < MaxInflight
            /\ notifs[n].subs[kind] /= <<>>
            /\ inflight' = Append(inflight,
                    [n |-> n, kind |-> kind, args |-> args,
                     h |-> notifs[n].subs[kind][1], pc |-> "translate",
                     got |-> <<>>])
            /\ UNCHANGED <<mgrs, closures, notifs, last, tr, draft>>

\* tn, the sender parameter of the i-th invocation in flight.
event_sender_latest(q, i) == Sender(notifs[q[Len(q)].n])
event_sender(q, i) == Sender(notifs[q[i].n])

\* The value Self::get_...(tn, args[, id.clone()]) of an invocation.
Translation(e, tn) ==
    CASE e.kind = "activated" -> get_activated_action(tn, e.args, e.h.id)
      [] e.kind = "dismissed" -> get_dismissal_reason(tn, e.args)
      [] e.kind = "failed" -> get_failed_error(tn, e.args)

\* An invocation evaluates the argument of f: the translation function.
TranslateStep ==
    \E i \in 1..Len(inflight) :
        /\ inflight[i].pc = "translate"
        /\ inflight' = [inflight EXCEPT
                ![i].got = <<Translation(inflight[i], event_sender(inflight, i))>>,
                ![i].pc = "call"]
        /\ UNCHANGED <<mgrs, closures, notifs, last, tr, draft>>

\* An invocation calls f with the value and returns Ok(()). `with` holds
\* the notifications whose invocations were in flight at that moment.
CallStep ==
    \E i \in 1..Len(inflight) :
        /\ inflight[i].pc = "call"
        /\ last' = [op |-> "handed", kind |-> inflight[i].kind,
                    n |-> inflight[i].n, args |-> inflight[i].args,
                    h |-> inflight[i].h, got |-> inflight[i].got[1],
                    with |-> { inflight[j].n : j \in 1..Len(inflight) \ {i} }]
        /\ inflight' = [j \in 1..(Len(inflight) - 1) |->
                            IF j < i THEN inflight[j] ELSE inflight[j + 1]]
        /\ UNCHANGED <<mgrs, closures, notifs, tr, draft>>

\* ----------------------------------------------------------------------
\* Notification history: remove_group, remove_grouped_tag, remove, clear
\* ----------------------------------------------------------------------

\* Arguments of the removal methods.
RemovalTags == {"t", "u"}
RemovalGroups == {"g", "h"}

\* The application identity of the calling process. A manager is created
\* for any identity (the examples use the PowerShell AUM_ID from their own
\* executables).
ProcessIdentity == "A"

history == { n \in 1..Len(notifs) : notifs[n].listed }

\* ToastNotificationHistory::RemoveGroupWithId(group, applicationId)
RemoveGroupWithId(group, app_id) ==
    { n \in history : notifs[n].app = app_id /\ notifs[n].group = group }

\* ToastNotificationHistory::RemoveGroupedTagWithId(tag, group, applicationId)
RemoveGroupedTagWithId(tag, group, app_id) ==
    { n \in history : /\ notifs[n].app = app_id
                      /\ notifs[n].group = group
                      /\ notifs[n].tag = tag }

\* ToastNotificationHistory::Remove(tag): the overload without an application
\* id, which addresses the notifications of the calling process's identity.
Remove(tag) ==
    { n \in history : notifs[n].app = ProcessIdentity /\ notifs[n].tag = tag }

\* ToastNotificationHistory::ClearWithId(applicationId)
ClearWithId(app_id) ==
    { n \in history : notifs[n].app = app_id }

\* The Result<()> of a removal method: the error of the platform call behind
\* `?`, Ok(()) otherwise; what the call removed is not looked at.
removal_ok_needs_target(fails, removed) == ~fails /\ removed /= {}
removal_ok(fails, removed) == ~fails

\* What a removal method returns and leaves: `fails` is the platform call
\* (History() or the removal) returning an error. `again` tells that the
\* call repeats the previous call, which returned Ok(()).
Removal(op, m, tag, group, fails, removed) ==
    /\ notifs' = [n \in 1..Len(notifs) |->
                    IF ~fails /\ n \in removed
                    THEN [notifs[n] EXCEPT !.listed = FALSE] ELSE notifs[n]]
    /\ last' = [op |-> op, m |-> m, tag |-> tag, group |-> group,
                ok |-> removal_ok(fails, removed), before |-> history,
                platform_failed |-> fails,
                again |-> /\ last.op = op
                          /\ last.m = m /\ last.tag = tag /\ last.group = group
                          /\ last.ok]
    /\ UNCHANGED <<mgrs, closures, tr, inflight, draft>>

\* ToastManager::remove_group(&self, group)
RemoveGroupOp ==
    \E m \in 1..Len(mgrs), group \in RemovalGroups, fails \in BOOLEAN :
        Removal("remove_group", m, "", group, fails,
                RemoveGroupWithId(group, mgrs[m].app_id))

\* ToastManager::remove_grouped_tag(&self, group, tag)
RemoveGroupedTagOp ==
    \E m \in 1..Len(mgrs), group \in RemovalGroups, tag \in RemovalTags,
       fails \in BOOLEAN :
        Removal("remove_grouped_tag", m, tag, group, fails,
                RemoveGroupedTagWithId(tag, group, mgrs[m].app_id))

\* ToastManager::remove(&self, tag)
RemoveOp ==
    \E m \in 1..Len(mgrs), tag \in RemovalTags, fails \in BOOLEAN :
        Removal("remove", m, tag, "", fails, Remove(tag))

\* ToastManager::clear(&self)
ClearOp ==
    \E m \in 1..Len(mgrs), fails \in BOOLEAN :
        Removal("clear", m, "", "", fails, ClearWithId(mgrs[m].app_id))

\* ----------------------------------------------------------------------
\* Toast content: the fields of a Toast that show writes to the document
\* ----------------------------------------------------------------------

\* Toast::new(): nothing is set.
NewToast ==
    [header |-> None, text |-> <<None, None, None>>, images |-> <<>>,
     audio |-> None, input |-> None, selections |-> <<>>, actions |-> <<>>]

\* ----------------------------------------------------------------------
\* Audio (content/audio.rs)
\* ----------------------------------------------------------------------

\* enum LoopingSound and LoopingSound::as_str
LoopingSounds ==
    { "Alarm", "Alarm2", "Alarm3", "Alarm4", "Alarm5", "Alarm6", "Alarm7",
      "Alarm8", "Alarm9", "Alarm10", "Call", "Call2", "Call3", "Call4",
      "Call5", "Call6", "Call7", "Call8", "Call9", "Call10" }

\* enum Sound: variant and, for Looping, the looping sound.
Sound(variant, looping) == [variant |-> variant, looping |-> looping]
Sounds ==
    { Sound(v, "") : v \in {"Default", "IM", "Mail", "Reminder", "SMS", "None"} }
    \cup { Sound("Looping", l) : l \in LoopingSounds }

\* Sound::as_str
sound_as_str(src) ==
    CASE src.variant = "Looping" -> src.looping
      [] src.variant = "None" -> ""
      [] OTHER -> src.variant

\* Audio::new(src)
Audio_new(src) == [src |-> src, loop_ |-> FALSE, silent |-> FALSE]
\* Audio::with_looping(self)
with_looping(a) == [a EXCEPT !.loop_ = TRUE]
\* Audio::with_silent(self)
with_silent(a) == [a EXCEPT !.silent = TRUE]

\* el.SetAttribute(name, value): the attributes of an element in the order
\* they are set.
Attribute(name, value) == [name |-> name, value |-> value]

bool_str(b) == IF b THEN "true" ELSE "false"

\* `let mut silent = self.silent; match &self.src { Sound::None => silent = true, .. }`
audio_silent_flag_only(a) == a.silent
audio_silent(a) == IF a.src.variant = "None" THEN TRUE ELSE a.silent

\* Audio::write_to_element: the attributes set on the audio element.
audio_write_to_element(a) ==
    (CASE a.src.variant = "None" -> <<>>
       [] a.src.variant = "Looping" ->
            <<Attribute("src", "ms-winsoundevent:Notification.Looping."
                               \o sound_as_str(a.src))>>
       [] OTHER ->
            <<Attribute("src", "ms-winsoundevent:Notification."
                               \o sound_as_str(a.src))>>)
    \o <<Attribute("loop", bool_str(a.loop_)),
         Attribute("silent", bool_str(audio_silent(a)))>>

\* let audio = Audio::new(src)
AudioNew ==
    \E src \in Sounds :
        /\ draft' = [draft EXCEPT !.audio = Some(Audio_new(src))]
        /\ UNCHANGED <<mgrs, closures, notifs, last, tr, inflight>>

\* let audio = audio.with_looping()
AudioWithLooping ==
    /\ draft.audio /= None
    /\ draft' = [draft EXCEPT !.audio = Some(with_looping(draft.audio[1]))]
    /\ UNCHANGED <<mgrs, closures, notifs, last, tr, inflight>>

\* let audio = audio.with_silent()
AudioWithSilent ==
    /\ draft.audio /= None
    /\ draft' = [draft EXCEPT !.audio = Some(with_silent(draft.audio[1]))]
    /\ UNCHANGED <<mgrs, closures, notifs, last, tr, inflight>>

\* audio.write_to_element(&audio_el)
WriteAudio ==
    /\ draft.audio /= None
    /\ tr' = [fn |-> "audio_write_to_element", audio |-> draft.audio[1],
              attrs |-> audio_write_to_element(draft.audio[1])]
    /\ UNCHANGED mainVars

NextAudio ==
    \/ AudioNew
    \/ AudioWithLooping
    \/ AudioWithSilent
    \/ WriteAudio

\* ----------------------------------------------------------------------
\* Input, Selection (content/input.rs) and Action (content/action.rs)
\* ----------------------------------------------------------------------

\* Input::new(id, type_)
Input_new(id, type_) ==
    [id |-> id, type_ |-> type_, place_holder |-> None, title |-> None,
     default_input |-> None]

\* InputType::as_str
input_type_as_str(type_) ==
    CASE type_ = "Text" -> "text"
      [] type_ = "Selection" -> "selection"

\* Input::write_to_element: the attributes set on the input element.
input_write_to_element(input) ==
    <<Attribute("id", input.id), Attribute("type", input_type_as_str(input.type_))>>
    \o (IF input.place_holder /= None
        THEN <<Attribute("placeHolderContent", input.place_holder[1])>> ELSE <<>>)
    \o (IF input.title /= None
        THEN <<Attribute("title", input.title[1])>> ELSE <<>>)
    \o (IF input.default_input /= None
        THEN <<Attribute("defaultInput", input.default_input[1])>> ELSE <<>>)

\* Selection::new(id, content)
Selection_new(id, content) == [id |-> id, content |-> content]

\* Selection::write_to_element
selection_write_to_element(selection) ==
    <<Attribute("id", selection.id), Attribute("content", selection.content)>>

\* Action::new(content, arguments, typ)
Action_new(content, arguments, typ) ==
    [content |-> content, arguments |-> arguments, type |-> typ,
     activation_type |-> None, placement |-> None, input_id |-> None,
     button_style |-> None]

\* Action::write_to_element
action_write_to_element(action) ==
    <<Attribute("content", action.content),
      Attribute("arguments", action.arguments),
      Attribute("type", action.type)>>
    \o (IF action.activation_type /= None
        THEN <<Attribute("activationType", action.activation_type[1])>> ELSE <<>>)
    \o (IF action.placement /= None
        THEN <<Attribute("placement", action.placement[1])>> ELSE <<>>)
    \o (IF action.button_style /= None
        THEN <<Attribute("hint-buttonStyle", action.button_style[1])>> ELSE <<>>)
    \o (IF action.input_id /= None
        THEN <<Attribute("hint-inputId", action.input_id[1])>> ELSE <<>>)

\* ----------------------------------------------------------------------
\* The document show builds from a Toast (manager.rs, show)
\* ----------------------------------------------------------------------

MaxItems == 2

\* An element: its name, the positional index show passes to
\* write_to_element (0: none), its attributes in the order they are set,
\* its children in the order they are appended.
El(name, index, attrs, children) ==
    [name |-> name, index |-> index, attrs |-> attrs, children |-> children]

\* toast.text.0 / .1 / .2: `text.write_to_element(slot, &el)`
text_element_unindexed(slot, text) == El("text", 1, <<>>, <<>>)
text_element(slot, text) == El("text", slot, <<>>, <<>>)

\* The text elements appended to the binding element.
text_elements(text) ==
    (IF text[1] /= None THEN <<text_element(1, text[1][1])>> ELSE <<>>)
    \o (IF text[2] /= None THEN <<text_element(2, text[2][1])>> ELSE <<>>)
    \o (IF text[3] /= None THEN <<text_element(3, text[3][1])>> ELSE <<>>)

\* `for (id, image) in &toast.images`: one image element per slot id.
image_elements(images) ==
    [i \in 1..Len(images) |-> El("image", images[i], <<>>, <<>>)]

\* <visual><binding template="ToastGeneric"> text* image* </binding></visual>
visual_element(toast) ==
    El("visual", 0, <<>>,
       <<El("binding", 0, <<Attribute("template", "ToastGeneric")>>,
            text_elements(toast.text) \o image_elements(toast.images))>>)

\* `for selection in &toast.selections`, inside `if let Some(input)`.
selection_elements_for_selection_input(input, selections) ==
    IF input.type_ = "Selection"
    THEN [i \in 1..Len(selections) |->
            El("selection", 0, selection_write_to_element(selections[i]), <<>>)]
    ELSE <<>>
selection_elements(input, selections) ==
    [i \in 1..Len(selections) |->
        El("selection", 0, selection_write_to_element(selections[i]), <<>>)]

\* `toast.input.is_some() || !toast.actions.is_empty()`
has_actions_element_actions_only(toast) == toast.actions /= <<>>
has_actions_element(toast) == toast.input /= None \/ toast.actions /= <<>>

\* <actions> input? action* </actions>
actions_element(toast) ==
    El("actions", 0, <<>>,
       (IF toast.input /= None
        THEN <<El("input", 0, input_write_to_element(toast.input[1]),
                  selection_elements(toast.input[1], toast.selections))>>
        ELSE <<>>)
       \o [i \in 1..Len(toast.actions) |->
              El("action", 0, action_write_to_element(toast.actions[i]), <<>>)])

\* toast_el.AppendChild in the order of the source.
toast_children_audio_last(header, visual, audio, actions) ==
    header \o visual \o actions \o audio
toast_children(header, visual, audio, actions) ==
    header \o visual \o audio \o actions

\* The document of show: the toast element and what is appended to it.
document(toast) ==
    El("toast", 0, <<>>,
       toast_children(
          IF toast.header /= None THEN <<El("header", 0, <<>>, <<>>)>> ELSE <<>>,
          <<visual_element(toast)>>,
          IF toast.audio /= None
          THEN <<El("audio", 0, audio_write_to_element(toast.audio[1]), <<>>)>>
          ELSE <<>>,
          IF has_actions_element(toast) THEN <<actions_element(toast)>> ELSE <<>>))

\* Values the caller gives to the builder methods of Toast.
TextSlots == {1, 2, 3}
ImageIds == {1, 2}
InputTypes == {"Text", "Selection"}
SelectionValues == { Selection_new("a", "A"), Selection_new("b", "B") }
ActionValues == { Action_new("Yes", "yes", ""), Action_new("No", "no", "") }

\* The builder methods are called before the toast is shown.
Building == tr = NoCall

\* Toast::text1 / text2 / text3
ToastText ==
    \E slot \in TextSlots :
        /\ Building
        /\ draft' = [draft EXCEPT !.text[slot] = Some("text")]
        /\ UNCHANGED <<mgrs, closures, notifs, last, tr, inflight>>

\* The slot ids of a map with id added, in the iteration order of the map.
RECURSIVE insert_id(_, _)
insert_id(ids, id) ==
    IF ids = <<>> THEN <<id>>
    ELSE IF id = Head(ids) THEN ids
    ELSE IF id < Head(ids) THEN <<id>> \o ids
    ELSE <<Head(ids)>> \o insert_id(Tail(ids), id)

\* Toast::image(id, image)
ToastImage ==
    \E id \in ImageIds :
        /\ Building
        /\ draft' = [draft EXCEPT !.images = insert_id(@, id)]
        /\ UNCHANGED <<mgrs, closures, notifs, last, tr, inflight>>

\* Toast::header(header)
ToastHeader ==
    /\ Building
    /\ draft' = [draft EXCEPT !.header = Some("header")]
    /\ UNCHANGED <<mgrs, closures, notifs, last, tr, inflight>>

\* Toast::audio(audio)
ToastAudio ==
    /\ Building
    /\ draft' = [draft EXCEPT !.audio = Some(Audio_new(Sound("Default", "")))]
    /\ UNCHANGED <<mgrs, closures, notifs, last, tr, inflight>>

\* Toast::input(input)
ToastInput ==
    \E type_ \in InputTypes :
        /\ Building
        /\ draft' = [draft EXCEPT !.input = Some(Input_new("k", type_))]
        /\ UNCHANGED <<mgrs, closures, notifs, last, tr, inflight>>

\* Toast::selection(selection)
ToastSelection ==
    \E selection \in SelectionValues :
        /\ Building
        /\ Len(draft.selections) < MaxItems
        /\ draft' = [draft EXCEPT !.selections = Append(@, selection)]
        /\ UNCHANGED <<mgrs, closures, notifs, last, tr, inflight>>

\* Toast::action(action)
ToastAction ==
    \E action \in ActionValues :
        /\ Building
        /\ Len(draft.actions) < MaxItems
        /\ draft' = [draft EXCEPT !.actions = Append(@, action)]
        /\ UNCHANGED <<mgrs, closures, notifs, last, tr, inflight>>

\* show builds the document of the toast.
ShowDocument ==
    /\ Building
    /\ tr' = [fn |-> "document", toast |-> draft, doc |-> document(draft)]
    /\ UNCHANGED mainVars

NextDocument ==
    \/ ToastText
    \/ ToastImage
    \/ ToastHeader
    \/ ToastAudio
    \/ ToastInput
    \/ ToastSelection
    \/ ToastAction
    \/ ShowDocument

\* ----------------------------------------------------------------------
\* Spec: a manager, registration, show, events and history
\* ----------------------------------------------------------------------

\* let manager = ToastManager::new(aum_id)
Init ==
    /\ \E aum \in AppIds : mgrs = <<new(aum)>>
    /\ closures = <<>>
    /\ notifs = <<>>
    /\ last = NoStep
    /\ tr = NoCall
    /\ inflight = <<>>
    /\ draft = NewToast

Next ==
    \/ CloneManager
    \/ OnActivated
    \/ OnDismissed
    \/ OnFailed
    \/ Show
    \/ BeginEvent
    \/ TranslateStep
    \/ CallStep
    \/ RaiseActivated
    \/ RaiseDismissed
    \/ RaiseFailed
    \/ RemoveGroupOp
    \/ RemoveGroupedTagOp
    \/ RemoveOp
    \/ ClearOp

Spec == Init /\ [][Next]_vars

\* The claims are checked under specifications that keep the operations a
\* claim is about.

\* The manager is created for the identity of its own process (the identity
\* plays no part in registration, show and the events).
InitOwnIdentity == Init /\ mgrs[1].app_id = ProcessIdentity


\* show under platform failures
NextShow ==
    \/ OnActivated
    \/ OnDismissed
    \/ OnFailed
    \/ Show

SpecShow == InitOwnIdentity /\ [][NextShow]_vars

\* registration, show and the events of the notifications shown
NextEvents ==
    \/ OnActivated
    \/ OnDismissed
    \/ OnFailed
    \/ ShowOk
    \/ RaiseActivated
    \/ RaiseDismissed
    \/ RaiseFailed

SpecEvents == InitOwnIdentity /\ [][NextEvents]_vars

\* show and the removal operations on the notification history
NextHistory ==
    \/ ShowOk
    \/ RemoveGroupOp
    \/ RemoveGroupedTagOp
    \/ RemoveOp
    \/ ClearOp

SpecHistory == Init /\ [][NextHistory]_vars

\* registration and show over the expiration offsets
NextExpiring ==
    \/ OnActivated
    \/ OnDismissed
    \/ OnFailed
    \/ ShowExpiring

SpecExpiring == Init /\ [][NextExpiring]_vars

\* The state after
\*   let m = ToastManager::new(aum).on_activated(id, f1).on_dismissed(f2)
\*                                 .on_failed(f3);
\*   m.show(&untagged)?; m.show(&tagged)?;
\* from which the platform raises the events of the two notifications.
InitConcurrent ==
    /\ \E aum \in AppIds, id \in InputIds :
          mgrs = <<[new(aum) EXCEPT
                      !.on_activated = set_slot(@, Handler(1, id)),
                      !.on_dismissed = set_slot(@, Handler(2, None)),
                      !.on_failed = set_slot(@, Handler(3, None))]>>
    /\ closures = <<[m |-> 1, kind |-> "activated"],
                    [m |-> 1, kind |-> "dismissed"],
                    [m |-> 1, kind |-> "failed"]>>
    /\ notifs = <<Accept(show(mgrs[1], Toast(None, None, None, None), 0).submitted[1], 1),
                  Accept(show(mgrs[1], Toast(Some("t"), Some("g"), None, None), 0).submitted[1], 1)>>
    /\ last = NoStep
    /\ tr = NoCall
    /\ inflight = <<>>
    /\ draft = NewToast

NextConcurrent ==
    \/ BeginEvent
    \/ TranslateStep
    \/ CallStep

SpecConcurrent == InitConcurrent /\ [][NextConcurrent]_vars

\* a Toast built by any sequence of builder calls, and its document
SpecDocument == Init /\ [][NextDocument]_vars

\* Audio values and their serialization
SpecAudio == Init /\ [][NextAudio]_vars

\* managers and their clones: registration, show and events
NextClone ==
    \/ CloneManager
    \/ OnActivated
    \/ OnDismissed
    \/ OnFailed
    \/ ShowPlain
    \/ RaiseEvent

SpecClone == InitOwnIdentity /\ [][NextClone]_vars

\* the translation functions on every payload
SpecTranslate == Init /\ [][NextTranslate]_vars

\* ======================================================================
\* Claims
\* ======================================================================

\* The ValueSet of an activation payload, empty when it cannot be obtained.
SubmittedPairs(p) ==
    IF p = None THEN {}
    ELSE IF p[1].UserInput = <<>> THEN {}
    ELSE p[1].UserInput[1]

\* The payload carries no argument: it is absent, is not an activation
\* payload, its argument cannot be read or is the empty string.
NoArgument(p) ==
    \/ p = None
    \/ p[1].class /= "ToastActivatedEventArgs"
    \/ p[1].Arguments = <<>>
    \/ p[1].Arguments[1] = ""

\* C1: the activation translation yields the "no action" outcome (None)
\* exactly when the payload carries no argument, and otherwise one
\* ActivatedAction whose arg is the payload's argument string unchanged; the
\* outcome is always one of these two, never an error.
C1_ActivationOutcome ==
    tr.fn = "get_activated_action" =>
        /\ Len(tr.out) <= 1
        /\ (tr.out = None) <=> NoArgument(tr.payload)
        /\ ~NoArgument(tr.payload) =>
              /\ Len(tr.out) = 1
              /\ tr.out[1].arg = tr.payload[1].Arguments[1]
              /\ tr.out[1].input_id = tr.input_id

\* C1 witness: an activation with argument "yes" was translated while the
\* submitted values could not be read.
C1_Witness ==
    /\ tr.fn = "get_activated_action"
    /\ tr.payload /= None
    /\ tr.payload[1].Arguments = <<"yes">>
    /\ tr.payload[1].UserInput = <<>>
    /\ tr.out /= None
    /\ tr.out[1].arg = "yes"

\* C2 as stated: for an activation with an argument, the values mapping
\* holds exactly the submitted pairs whose key and string value are both
\* non-empty.
C2_KeyAndValueNonEmpty ==
    (tr.fn = "get_activated_action" /\ tr.out /= None) =>
        tr.out[1].values =
            { <<q.key, q.value.str>> :
                q \in { x \in SubmittedPairs(tr.payload) :
                          /\ x.key /= ""
                          /\ x.value.type = "String"
                          /\ x.value.str /= "" } }

\* C2 amended: for an activation with an argument, the values mapping holds
\* exactly the submitted pairs whose value is a non-empty string, under
\* their keys and with the value unchanged; the key is not tested, so a
\* pair with an empty key and a non-empty string value appears too.
C2_ValueNonEmpty ==
    (tr.fn = "get_activated_action" /\ tr.out /= None) =>
        tr.out[1].values =
            { <<q.key, q.value.str>> :
                q \in { x \in SubmittedPairs(tr.payload) :
                          /\ x.value.type = "String"
                          /\ x.value.str /= "" } }

\* C2 witness: the submitted values held a non-empty string under the empty
\* key and an empty string under "k"; only the first is in the mapping.
C2_Witness ==
    /\ tr.fn = "get_activated_action"
    /\ tr.out /= None
    /\ [key |-> "", value |-> [type |-> "String", str |-> "v"]]
          \in SubmittedPairs(tr.payload)
    /\ [key |-> "k", value |-> [type |-> "String", str |-> ""]]
          \in SubmittedPairs(tr.payload)
    /\ tr.out[1].values = { <<"", "v">> }

\* The platform reason of a dismissal payload is one of the three known.
KnownReason(p) ==
    /\ p /= None
    /\ p[1].Reason /= <<>>
    /\ p[1].Reason[1] \in {UserCanceled, ApplicationHidden, TimedOut}

\* C3: the dismissal translation maps UserCanceled, ApplicationHidden and
\* TimedOut to the domain reason of the same name; an absent payload, an
\* unreadable reason or any other reason value yields the
\* InvalidDismissalReason error and no reason.
C3_DismissalMapping ==
    tr.fn = "get_dismissal_reason" =>
        IF KnownReason(tr.payload)
        THEN /\ tr.out.ok
             /\ tr.out.err = "none"
             /\ tr.out.reason = "UserCanceled"
                    <=> tr.payload[1].Reason[1] = UserCanceled
             /\ tr.out.reason = "ApplicationHidden"
                    <=> tr.payload[1].Reason[1] = ApplicationHidden
             /\ tr.out.reason = "TimedOut"
                    <=> tr.payload[1].Reason[1] = TimedOut
        ELSE /\ ~tr.out.ok
             /\ tr.out.err = "InvalidDismissalReason"
             /\ tr.out.reason = "none"

\* C3 witness: a reason value outside the three was translated to the error.
C3_Witness ==
    /\ tr.fn = "get_dismissal_reason"
    /\ tr.payload /= None
    /\ tr.payload[1].Reason = <<3>>
    /\ ~tr.out.ok

\* C4: the failure translation always yields a ToastFailed; its error is
\* the OS error wrapping the platform's code when the payload is present,
\* the code is readable and the code is a failure code, and Unknown in
\* every other case.
C4_FailureClassification ==
    tr.fn = "get_failed_error" =>
        LET p == tr.payload
            actual == /\ p /= None
                      /\ p[1].ErrorCode /= <<>>
                      /\ p[1].ErrorCode[1] < 0
        IN  /\ tr.out.error.kind \in {"Os", "Unknown"}
            /\ actual => tr.out.error = [kind |-> "Os", code |-> p[1].ErrorCode[1]]
            /\ ~actual => tr.out.error = [kind |-> "Unknown", code |-> 0]

\* C4 witness: a payload whose code reports success (S_FALSE) was
\* classified as Unknown.
C4_Witness ==
    /\ tr.fn = "get_failed_error"
    /\ tr.payload /= None
    /\ tr.payload[1].ErrorCode = <<S_FALSE>>
    /\ tr.out.error.kind = "Unknown"

\* The tag of an event result: <<tag>> for a result that has a tag field
\* (tag being the Option<String> it holds), <<>> for one that has none (the
\* "no action" outcome, a dismissal error).
ResultTag(kind, got) ==
    CASE kind = "activated" -> IF got = None THEN <<>> ELSE <<got[1].tag>>
      [] kind = "dismissed" -> IF got.ok THEN <<got.tag>> ELSE <<>>
      [] kind = "failed" -> <<got.tag>>

\* C5 as stated: in every event result handed to a closure, the tag field
\* is the tag that was set on the toast shown: that tag when one was set,
\* absent (None) when none was.
C5_TagOnlyIfSet ==
    last.op = "callback" =>
        \A j \in 1..Len(last.invoked) :
            LET t == ResultTag(last.kind, last.invoked[j].got)
            IN  t /= <<>> => t[1] = notifs[last.n].toast.tag

\* The calls show has made when the failAt-th one fails (all of them when
\* none does).
CallsUntil(steps, failAt) ==
    IF failAt = 0 THEN steps ELSE SubSeq(steps, 1, failAt)

\* The notification show submits for a toast: the toast's group, tag and
\* remote id, its expiration, and the manager's handlers.
Complete(n, m, toast) ==
    /\ n.app = m.app_id
    /\ n.group = (IF toast.group = None THEN "" ELSE toast.group[1])
    /\ n.tag = (IF toast.tag = None THEN "" ELSE toast.tag[1])
    /\ n.remote_id = (IF toast.remote_id = None THEN "" ELSE toast.remote_id[1])
    /\ (n.expiration = None) <=> (toast.expires_in = None)
    /\ \A k \in Kinds : n.subs[k] = Slot(m, k)

\* C6: a call of show hands at most one notification to the notifier and
\* makes no call after a failed one: exactly one submission, of the complete
\* notification, when every call before the submission succeeded; none when
\* one of them failed, and then the notifier takes nothing; show returns the
\* failure of the call that failed.
C6_ShowAtMostOnce ==
    last.op = "show" =>
        LET steps == ShowSteps(mgrs[last.m], last.toast)
            k == last.failAt
        IN  /\ Len(last.submitted) <= 1
            /\ last.calls = CallsUntil(steps, k)
            /\ (k = 0 \/ steps[k] = "Show") <=> Len(last.submitted) = 1
            /\ (k > 0 /\ steps[k] /= "Show") <=> Len(last.submitted) = 0
            /\ k = 0 <=> last.err = None
            /\ k > 0 => last.err = Some(steps[k])
            /\ Len(last.submitted) = 1 =>
                  Complete(last.submitted[1], mgrs[last.m], last.toast)
            /\ last.taken = (IF last.err = None THEN 1 ELSE 0)

\* C6 witness: show failed while attaching a handler, after the identity of
\* the notification was set, and submitted nothing.
C6_Witness ==
    /\ last.op = "show"
    /\ last.toast.tag /= None
    /\ last.err \in {Some("Activated"), Some("Dismissed"), Some("Failed")}
    /\ last.submitted = <<>>
    /\ notifs = <<>>

\* The closures registered on manager m for a kind among the first `upto`.
Registered(m, kind, upto) ==
    { f \in 1..upto : closures[f].m = m /\ closures[f].kind = kind }

Latest(S) == CHOOSE f \in S : \A g \in S : g <= f

RegistrationOps == {"on_activated", "on_dismissed", "on_failed"}

\* Each slot holds the last closure registered for its kind and nothing
\* else; an event invokes the one closure that was the last registered for
\* its kind when its notification was shown.
C7_LastWins ==
    /\ \A m \in 1..Len(mgrs), k \in Kinds :
          LET R == Registered(m, k, Len(closures))
          IN  IF R = {} THEN Slot(mgrs[m], k) = None
              ELSE /\ Len(Slot(mgrs[m], k)) = 1
                   /\ Slot(mgrs[m], k)[1].f = Latest(R)
    /\ last.op \in RegistrationOps =>
          Slot(mgrs[last.m], last.kind) = Some(Handler(last.f, last.id))
    /\ last.op = "callback" =>
          LET n == notifs[last.n]
              R == Registered(n.by, last.kind, n.registered)
          IN  /\ R /= {}
              /\ Len(last.invoked) = 1
              /\ last.invoked[1].f = Latest(R)

\* A step that changes a slot of a manager is a registration of that kind
\* on that manager; it leaves the other two slots and the identity alone.
C7_Frame ==
    \A m \in 1..Len(mgrs) :
        /\ mgrs'[m].app_id = mgrs[m].app_id
        /\ \A k \in Kinds :
              Slot(mgrs'[m], k) /= Slot(mgrs[m], k) =>
                  /\ last'.op \in RegistrationOps
                  /\ last'.m = m
                  /\ last'.kind = k
                  /\ \A k2 \in Kinds \ {k} : Slot(mgrs'[m], k2) = Slot(mgrs[m], k2)

\* C7: handler registration replaces and does not append: a manager holds
\* for each kind at most one handler, the last one registered; an event of a
\* notification shown afterwards invokes that handler alone; registering one
\* kind leaves the other two kinds and the identity string unchanged.
C7_RegistrationReplaces == []C7_LastWins /\ [][C7_Frame]_vars

\* C7 witness: a second on_activated replaced the first, a notification was
\* shown and its activation invoked the second closure.
C7_Witness ==
    /\ Len(closures) = 2
    /\ closures[1].kind = "activated"
    /\ closures[2].kind = "activated"
    /\ last.op = "callback"
    /\ last.kind = "activated"
    /\ Len(last.invoked) = 1
    /\ last.invoked[1].f = 2

\* C8: the notification a show call submits is subscribed to the handler
\* of a kind exactly when the manager holds a handler of that kind, and then
\* to that handler; the manager still holds its handlers after the call.
C8_SubscribedIffRegistered ==
    (last.op = "show" /\ Len(last.submitted) = 1) =>
        \A k \in Kinds :
            /\ last.submitted[1].subs[k] = Slot(mgrs[last.m], k)
            /\ (last.submitted[1].subs[k] = <<>>)
                  <=> (Registered(last.m, k, Len(closures)) = {})

\* C8 witness: a second show call on a manager that holds a dismissed
\* handler and no activated handler (the first notification was taken, the
\* second submission was rejected by the notifier): the handler was
\* attached again.
C8_Witness ==
    /\ Len(notifs) = 1
    /\ notifs[1].subs["dismissed"] /= <<>>
    /\ last.op = "show"
    /\ last.err = Some("Show")
    /\ Len(last.submitted) = 1
    /\ last.submitted[1].subs["dismissed"] = notifs[1].subs["dismissed"]
    /\ last.submitted[1].subs["activated"] = <<>>

\* C9 as stated: every event handed to a closure for a notification is of
\* the kind of the first event handed to a closure for it (no handler of
\* another kind is invoked for the same notification).
C9_OneKindPerNotification ==
    last.op = "callback" => notifs[last.n].first = last.kind

\* C9 amended: an event the platform raises for a notification invokes the
\* handler registered for that event's kind and no handler of another kind;
\* the manager keeps no record of earlier events, so when the platform
\* raises events of two kinds for one notification each is delivered.
C9_OwnKindOnly ==
    last.op = "callback" =>
        /\ Len(last.invoked) = 1
        /\ \A j \in 1..Len(last.invoked) :
              /\ closures[last.invoked[j].f].kind = last.kind
              /\ last.invoked[j].status = "Ok"

\* C9 witness: a notification whose dismissal was delivered gets its
\* activation delivered too.
C9_Witness ==
    /\ last.op = "callback"
    /\ last.kind = "activated"
    /\ notifs[last.n].first = "dismissed"
    /\ closures[last.invoked[1].f].kind = "activated"

\* The notifications a removal method is meant to remove: those of the
\* manager's application identity that match its key.
Matching(op, app_id, tag, group) ==
    { n \in 1..Len(notifs) :
        /\ notifs[n].app = app_id
        /\ CASE op = "remove" -> notifs[n].tag = tag
             [] op = "remove_grouped_tag" ->
                    notifs[n].tag = tag /\ notifs[n].group = group
             [] op = "remove_group" -> notifs[n].group = group
             [] op = "clear" -> TRUE }

RemovalOps == {"remove", "remove_grouped_tag", "remove_group", "clear"}

\* C10 as stated: a removal operation that succeeds removes from the
\* history exactly the notifications of the manager's application identity
\* that match its key, and leaves the others.
C10_RemovesExactlyMatching ==
    (last.op \in RemovalOps /\ last.ok) =>
        history = last.before
                    \ Matching(last.op, mgrs[last.m].app_id, last.tag, last.group)

\* C11: remove, remove_grouped_tag, remove_group and clear are idempotent.
\* A call that repeats the previous, successful call with the same
\* arguments returns Ok(()) again unless the platform call itself fails,
\* and leaves the notification history as the first call left it.
C11_IdempotentRemoval ==
    (last.op \in RemovalOps /\ last.again /\ ~last.platform_failed) =>
        /\ last.ok
        /\ history = last.before

\* A repeated clear or removal after the first call took a notification
\* out of the history.
C11_Witness ==
    /\ last.op \in RemovalOps
    /\ last.again
    /\ last.ok
    /\ \E n \in 1..Len(notifs) :
          /\ ~notifs[n].listed
          /\ notifs[n].app = mgrs[last.m].app_id
          /\ last.op = "remove" => notifs[n].tag = last.tag
          /\ last.op = "remove_group" => notifs[n].group = last.group
          /\ last.op = "remove_grouped_tag" =>
                (notifs[n].tag = last.tag /\ notifs[n].group = last.group)

\* C12: translation failures reach the caller's closure. Every platform
\* event delivered to a registered handler invokes the caller's closure once
\* with the translated result, and the callback returns Ok(()) to the
\* platform: a dismissal with an absent or unrecognized reason hands over
\* Err(InvalidDismissalReason), a failure without a usable code hands over
\* the Unknown error, an activation without argument hands over None.
C12_FailuresReachHandler ==
    last.op = "callback" =>
        /\ Len(last.invoked) = 1
        /\ last.invoked[1].status = "Ok"
        /\ last.invoked[1].f = notifs[last.n].subs[last.kind][1].f
        /\ (last.kind = "dismissed" /\ ~KnownReason(last.args)) =>
                /\ ~last.invoked[1].got.ok
                /\ last.invoked[1].got.err = "InvalidDismissalReason"
        /\ (last.kind = "dismissed" /\ KnownReason(last.args)) =>
                last.invoked[1].got.ok
        /\ (last.kind = "failed" /\ last.args = None) =>
                last.invoked[1].got.error = UnknownError
        /\ (last.kind = "activated" /\ NoArgument(last.args)) =>
                last.invoked[1].got = None

\* A dismissal with an unrecognized reason was handed to the closure as a
\* failure value.
C12_Witness ==
    /\ last.op = "callback"
    /\ last.kind = "dismissed"
    /\ last.args = Some([Reason |-> <<3>>])
    /\ Len(last.invoked) = 1
    /\ ~last.invoked[1].got.ok

\* The number of seconds v added to the time of the show call gives that
\* time plus the offset d.
SameSpan(v, d) == d.hi = 0 /\ d.nanos = 0 /\ v = d.lo

\* C13 as stated: the expiration time show gives to a notification is the
\* time of the show call plus the toast's expiration offset, for every
\* offset; a toast without an offset gets no expiration time.
C13_ExpirationIsNowPlusOffset ==
    \A n \in 1..Len(notifs) :
        IF notifs[n].toast.expires_in = None
        THEN notifs[n].expiration = None
        ELSE /\ notifs[n].expiration /= None
             /\ SameSpan(notifs[n].expiration[1], notifs[n].toast.expires_in[1])

\* The value the closure is handed when the event is delivered alone.
DeliveredAlone(kind, n, args) ==
    CASE kind = "activated" ->
            activated_callback(notifs[n].subs[kind][1], Sender(notifs[n]), args).got
      [] kind = "dismissed" ->
            dismissed_callback(notifs[n].subs[kind][1], Sender(notifs[n]), args).got
      [] kind = "failed" ->
            failed_callback(notifs[n].subs[kind][1], Sender(notifs[n]), args).got

\* C14: events of different notifications are translated independently
\* under every interleaving of the handler invocations. The value handed to
\* the caller's closure is the value the event yields when delivered alone:
\* it depends on the event's payload, its notification's tag and the input
\* id given at registration, which is carried through unchanged.
C14_IndependentTranslation ==
    last.op = "handed" =>
        /\ last.got = DeliveredAlone(last.kind, last.n, last.args)
        /\ last.kind = "activated" =>
                /\ last.got /= None
                /\ last.got[1].input_id = mgrs[1].on_activated[1].id
                /\ last.got[1].tag = Some(notifs[last.n].tag)
        /\ last.kind = "dismissed" => last.got.tag = Some(notifs[last.n].tag)
        /\ last.kind = "failed" => last.got.tag = Some(notifs[last.n].tag)

\* A closure was handed its value while an invocation for another
\* notification, with another tag, was in flight.
C14_Witness ==
    /\ last.op = "handed"
    /\ \E n \in last.with :
          /\ n /= last.n
          /\ notifs[n].tag /= notifs[last.n].tag

\* The values of the attribute `name` among the attributes set.
AttrValues(attrs, name) ==
    { attrs[i].value : i \in { j \in 1..Len(attrs) : attrs[j].name = name } }

\* C15: the serialized audio element has silent="true" whenever the sound is
\* Sound::None, whatever the silent flag; for every other sound, silent is
\* "true" exactly when with_silent was called and "false" otherwise.
C15_NoSoundForcesSilent ==
    tr.fn = "audio_write_to_element" =>
        AttrValues(tr.attrs, "silent") =
            { IF tr.audio.src.variant = "None" THEN "true"
              ELSE IF tr.audio.silent THEN "true" ELSE "false" }

\* Audio::new(Sound::None) without with_silent was written with silent="true".
C15_Witness ==
    /\ tr.fn = "audio_write_to_element"
    /\ tr.audio.src.variant = "None"
    /\ ~tr.audio.silent
    /\ AttrValues(tr.attrs, "silent") = {"true"}

\* The names of a sequence of elements, and its elements of one name.
Names(els) == [i \in 1..Len(els) |-> els[i].name]
RECURSIVE Named(_, _)
Named(els, name) ==
    IF els = <<>> THEN <<>>
    ELSE (IF Head(els).name = name THEN <<Head(els)>> ELSE <<>>)
         \o Named(Tail(els), name)

\* The children of all elements of a sequence, in order.
RECURSIVE ChildrenOf(_)
ChildrenOf(els) ==
    IF els = <<>> THEN <<>> ELSE Head(els).children \o ChildrenOf(Tail(els))

\* The value of an attribute an element carries once.
AttrOf(el, name) == CHOOSE v \in AttrValues(el.attrs, name) : TRUE

Built == tr.fn = "document"

\* C16: the children of the toast element are, in this order, header (when
\* set), visual (always), audio (when set), actions (when present); inside
\* actions the input element precedes every action element, the selection
\* elements are the children of input in insertion order and the action
\* elements are in insertion order.
C16_FixedElementOrder ==
    Built =>
        /\ Names(tr.doc.children) =
              (IF tr.toast.header /= None THEN <<"header">> ELSE <<>>)
              \o <<"visual">>
              \o (IF tr.toast.audio /= None THEN <<"audio">> ELSE <<>>)
              \o (IF Named(tr.doc.children, "actions") /= <<>>
                  THEN <<"actions">> ELSE <<>>)
        /\ \A a \in 1..Len(Named(tr.doc.children, "actions")) :
              LET actions == Named(tr.doc.children, "actions")[a]
                  inputs == Named(actions.children, "input")
              IN  /\ Names(actions.children) =
                        (IF tr.toast.input /= None THEN <<"input">> ELSE <<>>)
                        \o [i \in 1..Len(tr.toast.actions) |-> "action"]
                  /\ [i \in 1..Len(Named(actions.children, "action")) |->
                        AttrOf(Named(actions.children, "action")[i], "arguments")]
                     = [i \in 1..Len(tr.toast.actions) |->
                            tr.toast.actions[i].arguments]
                  /\ \A j \in 1..Len(inputs) :
                        [i \in 1..Len(inputs[j].children) |->
                            AttrOf(inputs[j].children[i], "id")]
                        = [i \in 1..Len(tr.toast.selections) |->
                            tr.toast.selections[i].id]

\* A document with header, audio, an input with two different selections and
\* two different actions.
C16_Witness ==
    /\ Built
    /\ Names(tr.doc.children) = <<"header", "visual", "audio", "actions">>
    /\ tr.toast.input /= None
    /\ Len(tr.toast.selections) = 2
    /\ tr.toast.selections[1] /= tr.toast.selections[2]
    /\ Len(tr.toast.actions) = 2
    /\ tr.toast.actions[1] /= tr.toast.actions[2]

\* C17: the document has an actions element if and only if the toast has an
\* Input or at least one Action; with only an Input the actions element
\* holds just the input.
C17_ActionsElementIff ==
    Built =>
        /\ Len(Named(tr.doc.children, "actions")) =
              (IF tr.toast.input /= None \/ tr.toast.actions /= <<>>
               THEN 1 ELSE 0)
        /\ (tr.toast.input /= None /\ tr.toast.actions = <<>>) =>
              Names(Named(tr.doc.children, "actions")[1].children) = <<"input">>

\* A toast with only an Input got an actions element holding the input.
C17_Witness ==
    /\ Built
    /\ tr.toast.input /= None
    /\ tr.toast.actions = <<>>
    /\ Len(Named(tr.doc.children, "actions")) = 1

\* The binding element of the document.
Binding == ChildrenOf(Named(tr.doc.children, "visual"))[1]

\* C18: the binding element holds one text element per text slot that is
\* set and none for a slot that is not; the element of slot i carries the
\* positional index i, and the text elements come in increasing slot order
\* before any image element.
C18_TextSlots ==
    Built =>
        LET texts == Named(Binding.children, "text")
            slots == { i \in TextSlots : tr.toast.text[i] /= None }
        IN  /\ Len(texts) = Cardinality(slots)
            /\ { texts[i].index : i \in 1..Len(texts) } = slots
            /\ \A i, j \in 1..Len(texts) :
                  i < j => texts[i].index < texts[j].index
            /\ Names(Binding.children) =
                  [i \in 1..Len(texts) |-> "text"]
                  \o [i \in 1..Len(tr.toast.images) |-> "image"]

\* All three text slots and an image are set: three text elements with
\* indices 1, 2, 3 in that order, then the image.
C18_Witness ==
    /\ Built
    /\ \A i \in TextSlots : tr.toast.text[i] /= None
    /\ tr.toast.images /= <<>>
    /\ [i \in 1..3 |-> Binding.children[i].index] = <<1, 2, 3>>

\* Every element of the document below the toast element, by depth.
Level1 == tr.doc.children
Level2 == ChildrenOf(Level1)
Level3 == ChildrenOf(Level2)
Level4 == ChildrenOf(Level3)

\* C20: selection elements are written only as children of the input
\* element. Without an Input the document has no selection element even if
\* the toast holds selections; with an Input it has one selection element
\* per stored selection, in insertion order, whatever the Input's type.
C20_SelectionsUnderInput ==
    Built =>
        LET inputs == Named(Level2, "input")
        IN  /\ Named(Level1, "selection") = <<>>
            /\ Named(Level2, "selection") = <<>>
            /\ Named(Level4, "selection") = <<>>
            /\ Named(Level3, "selection") = ChildrenOf(inputs)
            /\ tr.toast.input = None => Named(Level3, "selection") = <<>>
            /\ tr.toast.input /= None =>
                  [i \in 1..Len(Named(Level3, "selection")) |->
                      AttrOf(Named(Level3, "selection")[i], "id")]
                  = [i \in 1..Len(tr.toast.selections) |->
                      tr.toast.selections[i].id]

\* A toast holding two selections and an action but no Input was written
\* with an actions element and without a selection element.
C20_Witness ==
    /\ Built
    /\ Len(tr.toast.selections) = 2
    /\ tr.toast.input = None
    /\ tr.toast.actions /= <<>>
    /\ Named(Level1, "actions") /= <<>>
    /\ Named(Level3, "selection") = <<>>

\* A step leaves the handlers of the notifications already shown, and a
\* registration leaves every manager value but its own.
C19_Frame ==
    /\ \A n \in 1..Len(notifs) : notifs'[n].subs = notifs[n].subs
    /\ last'.op \in RegistrationOps =>
          \A m \in 1..Len(mgrs) : m /= last'.m => mgrs'[m] = mgrs[m]

\* An event of a notification is handed to the closures of the handlers the
\* notification was shown with.
C19_ShownHandlersInvoked ==
    last.op = "callback" =>
        [j \in 1..Len(last.invoked) |-> last.invoked[j].f]
        = [j \in 1..Len(notifs[last.n].subs[last.kind]) |->
                notifs[last.n].subs[last.kind][j].f]

\* C19: a notification keeps the handlers it was shown with. Registering a
\* handler after a show, on the manager or on a clone of it, changes neither
\* the handlers of a notification already shown nor the handlers of another
\* manager value, and every event of a notification goes to the handlers
\* that were registered when it was shown.
C19_NotificationKeepsHandlers ==
    [][C19_Frame]_vars /\ []C19_ShownHandlersInvoked

\* An event was handed over for a notification whose manager has since been
\* cloned and given another handler of that kind.
C19_Witness ==
    /\ last.op = "callback"
    /\ Len(mgrs) > 1
    /\ Slot(mgrs[notifs[last.n].by], last.kind) /= notifs[last.n].subs[last.kind]

====
